---- MODULE Spec2Model ----
(***************************************************************************)
(* Model of api/ask.js: the serverless handler that fans a query out to    *)
(* the channels of a domain, joins the per-channel fetches and fuses the   *)
(* ranked results into an answer payload.                                  *)
(*                                                                         *)
(* JavaScript strings are sequences of one-character tokens; an HTML tag   *)
(* is one token.  Authority, rank and confidence are kept in hundredths    *)
(* (0.95 is 95), so that all arithmetic is on integers.                    *)
(***************************************************************************)
EXTENDS Integers, Sequences, FiniteSets, TLC

(***************************************************************************)
(* Bounds of the model.                                                    *)
(***************************************************************************)
\* how many of the candidate bodies of BodyTable an endpoint may answer with
MaxBodies == 2

(***************************************************************************)
(* Program constants.                                                      *)
(***************************************************************************)
SnippetCap == 3000
SummaryCap == 300
TopSize == 5
FindingsCap == 6
SegmentsPerSnippet == 2
DefaultAuthority == 50

(***************************************************************************)
(* JavaScript values of the request.                                       *)
(***************************************************************************)
Undefined == [kind |-> "undefined"]
Str(s) == [kind |-> "string", s |-> s]
Num(s) == [kind |-> "number", s |-> s]
DomainName(d) == [kind |-> "string", name |-> d]

\* a lone UTF-16 surrogate, as JSON.parse of "\ud800" yields it
LoneSurrogate == "\\uD800"

Whitespace == {" ", "\n"}
TagTokens == {"<p>", "</p>"}

\* the truthiness test of !q
Truthy(v) ==
    CASE v.kind = "undefined" -> FALSE
      [] v.kind = "string" -> v.s # <<>>
      [] v.kind = "number" -> v.s # <<"0">>

(***************************************************************************)
(* String helpers, computed as the JavaScript built-ins compute them.      *)
(***************************************************************************)
RECURSIVE SkipWhitespace(_)
SkipWhitespace(s) ==
    IF s # <<>> /\ Head(s) \in Whitespace THEN SkipWhitespace(Tail(s)) ELSE s

\* s.replace(/\s+/g, rep): every maximal run of whitespace becomes one rep
ReplaceWhitespaceRuns(s, rep) ==
    LET kept == SelectSeq([i \in 1..Len(s) |-> i],
                          LAMBDA i : \/ s[i] \notin Whitespace
                                     \/ i = 1
                                     \/ s[i - 1] \notin Whitespace)
    IN [k \in 1..Len(kept) |-> IF s[kept[k]] \in Whitespace THEN rep ELSE s[kept[k]]]

RECURSIVE TrimEnd(_)
TrimEnd(s) ==
    IF s # <<>> /\ s[Len(s)] \in Whitespace
    THEN TrimEnd(SubSeq(s, 1, Len(s) - 1)) ELSE s

\* s.trim()
Trim(s) == TrimEnd(SkipWhitespace(s))

\* s.slice(0, n) of a string or an array
Slice(s, n) == SubSeq(s, 1, IF Len(s) < n THEN Len(s) ELSE n)

LowerChar(c) ==
    CASE c = "A" -> "a"
      [] c = "B" -> "b"
      [] c = "C" -> "c"
      [] OTHER -> c

\* s.toLowerCase()
ToLowerCase(s) == [i \in 1..Len(s) |-> LowerChar(s[i])]

\* s.includes(t)
Includes(s, t) ==
    \E i \in 0..(Len(s) - Len(t)) : SubSeq(s, i + 1, i + Len(t)) = t

\* s.split("."): the segments between the dots, empty ones included
Split(s) ==
    LET dots == SelectSeq([i \in 1..Len(s) |-> i], LAMBDA i : s[i] = ".")
        edges == <<0>> \o dots \o <<Len(s) + 1>>
    IN [k \in 1..(Len(dots) + 1) |-> SubSeq(s, edges[k] + 1, edges[k + 1] - 1)]

\* parts.join(sep)
RECURSIVE Join(_, _)
Join(parts, sep) ==
    IF parts = <<>> THEN <<>>
    ELSE IF Len(parts) = 1 THEN parts[1]
         ELSE parts[1] \o sep \o Join(Tail(parts), sep)

RECURSIVE Flatten(_)
Flatten(ss) == IF ss = <<>> THEN <<>> ELSE Head(ss) \o Flatten(Tail(ss))

\* encodeURIComponent throws URIError on a lone surrogate
EncodeThrows(s) == \E i \in 1..Len(s) : s[i] = LoneSurrogate

EncodeChar(c) ==
    CASE c = " " -> "%20"
      [] c = "\n" -> "%0A"
      [] OTHER -> c

\* encodeURIComponent(s), for a string it does not throw on
EncodeURIComponent(s) == [i \in 1..Len(s) |-> EncodeChar(s[i])]

(***************************************************************************)
(* cleanText: the text of the document body, whitespace collapsed and      *)
(* trimmed.  Both the JSDOM path and the strip-tags path drop the tags.    *)
(***************************************************************************)
StripTags(html) == SelectSeq(html, LAMBDA c : c \notin TagTokens)

cleanText(html) ==
    IF html = <<>> THEN <<>>
    ELSE Trim(ReplaceWhitespaceRuns(StripTags(html), " "))

(***************************************************************************)
(* CHANNELS: the registry.  A descriptor's url function is               *)
(*   base + encodeURIComponent(arg(q)) + tail                              *)
(* where arg appends a keyword to q, or (wikipedia) replaces whitespace    *)
(* runs by "_".                                                            *)
(***************************************************************************)
Chan(id, base, suffix, tail) ==
    [id |-> id, base |-> base, suffix |-> suffix, tail |-> tail, wiki |-> FALSE]

Flights == <<" ", "f", "l", "i", "g", "h", "t", "s">>
BestPrice == <<" ", "b", "e", "s", "t", " ", "p", "r", "i", "c", "e">>
Sports == <<" ", "s", "p", "o", "r", "t", "s">>

CHANNELS ==
    [general |-> <<
        Chan("duckduckgo", "https://html.duckduckgo.com/html/?q=", <<>>, <<>>),
        Chan("bing", "https://www.bing.com/search?q=", <<>>, <<>>),
        Chan("brave", "https://search.brave.com/search?q=", <<>>, <<>>),
        [id |-> "wikipedia", base |-> "https://en.wikipedia.org/wiki/",
         suffix |-> <<>>, tail |-> <<>>, wiki |-> TRUE] >>,
     flights |-> <<
        Chan("duckduckgo", "https://html.duckduckgo.com/html/?q=", Flights, <<>>),
        Chan("google_preview", "https://www.google.com/search?q=", Flights, <<>>),
        Chan("skyscanner", "https://www.skyscanner.net/search?keywords=", <<>>, <<>>) >>,
     deals |-> <<
        Chan("google_shopping", "https://www.google.com/search?q=", BestPrice, <<>>),
        Chan("slickdeals", "https://slickdeals.net/newsearch.php?q=", <<>>, <<>>),
        Chan("ebay", "https://www.ebay.com/sch/i.html?_nkw=", <<>>, <<>>) >>,
     sports |-> <<
        Chan("espn", "https://www.espn.com/search/results?q=", <<>>, <<>>),
        Chan("bbc_sport", "https://www.bbc.co.uk/sport/search?q=", <<>>, <<>>),
        Chan("duckduckgo", "https://html.duckduckgo.com/html/?q=", Sports, <<>>) >>,
     research |-> <<
        Chan("arxiv", "https://arxiv.org/search/?query=", <<>>, <<"&searchtype=all">>),
        Chan("semantic", "https://www.semanticscholar.org/search?q=", <<>>, <<>>),
        Chan("pubmed", "https://pubmed.ncbi.nlm.nih.gov/?term=", <<>>, <<>>) >>,
     finance |-> <<
        Chan("yahoo_finance", "https://finance.yahoo.com/lookup?s=", <<>>, <<>>),
        Chan("marketwatch", "https://www.marketwatch.com/search?q=", <<>>, <<>>),
        Chan("investing", "https://www.investing.com/search/?q=", <<>>, <<>>) >>]

\* names CHANNELS inherits from Object.prototype: CHANNELS[name] is then a
\* truthy value that is no array, and channels.map is no function
InheritedKeys == {"constructor", "toString", "__proto__"}

\* The module-level object CHANNELS is shared by every invocation of
\* handler, and its arrays are mutable: it is state, set at module load.
VARIABLE registry

\* CHANNELS[domain] || CHANNELS.general
ChannelsFor(d) == IF d \in DOMAIN registry THEN registry[d] ELSE registry.general

\* channels.map throws TypeError
MapThrows(d) == d \in InheritedKeys

\* the longest channel list of the registry
MaxChannels == 4
ChanIdx == 1..MaxChannels

\* the argument ch.url(q) hands to encodeURIComponent; q.replace is no
\* function of a number, q + " flights" converts a number to its digits
UrlThrows(ch, qv) ==
    \/ ch.wiki /\ qv.kind # "string"
    \/ EncodeThrows(qv.s \o ch.suffix)

UrlArg(ch, qv) ==
    IF ch.wiki THEN ReplaceWhitespaceRuns(qv.s, "_") ELSE qv.s \o ch.suffix

UrlOf(ch, qv) == <<ch.base>> \o EncodeURIComponent(UrlArg(ch, qv)) \o ch.tail

authorityFor(id) ==
    CASE id = "arxiv" -> 95
      [] id = "pubmed" -> 95
      [] id = "semantic" -> 90
      [] id = "wikipedia" -> 90
      [] id = "yahoo_finance" -> 80
      [] OTHER -> DefaultAuthority

(***************************************************************************)
(* What the network may answer.  Status codes are written as their decimal *)
(* digits so that a status and null compare.                               *)
(***************************************************************************)
Null == "null"

\* fetch treats every status alike: one success and one error status
Statuses == {"200", "503"}

BodyTable ==
    << <<"<p>", "A", " ", "\n", "B", ".", " ", "c", "</p>">>,
       <<>>,
       <<".", " ", "b", ".", "c">>,
       <<" ", "<p>", "a", "\n", "b", "</p>", ".", "c", ".", "d">> >>
Bodies == {BodyTable[i] : i \in 1..(IF MaxBodies < Len(BodyTable)
                                     THEN MaxBodies ELSE Len(BodyTable))}

AbortError == "AbortError: This operation was aborted"
FetchFailed == "TypeError: fetch failed"
Terminated == "TypeError: terminated"

(***************************************************************************)
(* The requests the platform hands to handler: a GET carries a parsed      *)
(* query object of strings, a POST a parsed JSON body (or none).           *)
(***************************************************************************)
Query == Str(<<"a", " ", "b">>)

DomainInputs ==
    {Undefined} \cup {DomainName(d) : d \in (DOMAIN CHANNELS) \cup {"unknown_domain_xyz", "constructor"}}
GetQueries == {Undefined, Str(<<>>), Query}
PostQueries == GetQueries \cup {Str(<<LoneSurrogate>>), Num(<<"5">>)}

Requests ==
    {[method |-> "GET", query |-> [domain |-> d, q |-> v], body |-> Undefined] :
        d \in DomainInputs, v \in GetQueries}
    \cup {[method |-> "POST", query |-> [domain |-> Undefined, q |-> Undefined],
           body |-> Undefined]}
    \cup {[method |-> "POST", query |-> [domain |-> Undefined, q |-> Undefined],
           body |-> [kind |-> "object", domain |-> d, query |-> v]] :
        d \in DomainInputs, v \in PostQueries}

\* lines 80-86: domain and q of a request
DomainOf(req) ==
    LET d == IF req.method = "GET" THEN req.query.domain
             ELSE IF req.body.kind = "undefined" THEN Undefined ELSE req.body.domain
    IN IF d.kind = "undefined" THEN "general" ELSE d.name

QOf(req) ==
    IF req.method = "GET" THEN req.query.q
    ELSE IF req.body.kind = "undefined" THEN Undefined ELSE req.body.query

(***************************************************************************)
(* The channel task of handler, after safeFetch has returned r.            *)
(***************************************************************************)
\* q.toLowerCase is no function of a number; it is evaluated only when r.ok
ScoreThrows(r, qv) == r.ok /\ qv.kind # "string"

SnippetOf(r) == IF r.ok THEN Slice(cleanText(r.text), SnippetCap) ELSE <<>>

MatchScoreOf(r, qv) ==
    IF r.ok /\ Includes(ToLowerCase(SnippetOf(r)), ToLowerCase(qv.s)) THEN 1 ELSE 0

ChannelResult(ch, qv, r) ==
    [id |-> ch.id,
     url |-> UrlOf(ch, qv),
     ok |-> r.ok,
     status |-> IF "status" \in DOMAIN r THEN r.status ELSE Null,
     error |-> IF "error" \in DOMAIN r THEN r.error ELSE Null,
     snippet |-> SnippetOf(r),
     matchScore |-> MatchScoreOf(r, qv),
     authority |-> authorityFor(ch.id)]

(***************************************************************************)
(* Ranking and synthesis, lines 110-127.                                   *)
(***************************************************************************)
WithRank(x) ==
    [id |-> x.id, url |-> x.url, ok |-> x.ok, status |-> x.status, error |-> x.error,
     snippet |-> x.snippet, matchScore |-> x.matchScore, authority |-> x.authority,
     rank |-> x.matchScore * x.authority]

\* a sort that puts an element before the earlier ones of equal rank
RECURSIVE InsertByRankUnstable(_, _)
InsertByRankUnstable(sorted, x) ==
    IF sorted = <<>> THEN <<x>>
    ELSE IF Head(sorted).rank > x.rank
         THEN <<Head(sorted)>> \o InsertByRankUnstable(Tail(sorted), x)
         ELSE <<x>> \o sorted

\* Array.prototype.sort with (a,b) => b.rank - a.rank: stable, descending
RECURSIVE InsertByRank(_, _)
InsertByRank(sorted, x) ==
    IF sorted = <<>> THEN <<x>>
    ELSE IF Head(sorted).rank >= x.rank
         THEN <<Head(sorted)>> \o InsertByRank(Tail(sorted), x)
         ELSE <<x>> \o sorted

\* a ranking that forgets to sort
SortByRankOmitted(s) == s

RECURSIVE SortByRank(_)
SortByRank(s) ==
    IF s = <<>> THEN <<>>
    ELSE InsertByRank(SortByRank(SubSeq(s, 1, Len(s) - 1)), s[Len(s)])

\* a ranking that forgets the filter on r.ok
SuccessfulUnfiltered(results) == results

Successful(results) == SelectSeq(results, LAMBDA x : x.ok)

Ranked(results) ==
    LET okResults == Successful(results)
    IN SortByRank([i \in 1..Len(okResults) |-> WithRank(okResults[i])])

Top(results) == Slice(Ranked(results), TopSize)

SummarySeparator == <<" ", ".", ".", ".", " ">>
NoEvidence ==
    <<"N", "o", " ", "s", "t", "r", "o", "n", "g", " ", "e", "v", "i", "d", "e", "n",
      "c", "e", " ", "f", "o", "u", "n", "d", ".">>

\* a summary of whole snippets, without slice(0,300)
ExecutiveUnsliced(top) ==
    Join([i \in 1..Len(top) |-> top[i].snippet], SummarySeparator)

Executive(top) ==
    Join([i \in 1..Len(top) |-> Slice(top[i].snippet, SummaryCap)], SummarySeparator)

\* a summary without the fallback literal
ExecutiveSummaryNoFallback(executive) == executive

\* line 121: executive || "No strong evidence found."
ExecutiveSummary(executive) == IF executive = <<>> THEN NoEvidence ELSE executive

\* findings that drop the empty segments before taking the first two
SnippetFindingsFilterFirst(snippet) ==
    LET segs == Split(snippet)
        trimmed == [i \in 1..Len(segs) |-> Trim(segs[i])]
    IN Slice(SelectSeq(trimmed, LAMBDA s : s # <<>>), SegmentsPerSnippet)

\* t.snippet.split(".").slice(0,2).map(s => s.trim()).filter(Boolean)
SnippetFindings(snippet) ==
    LET segs == Slice(Split(snippet), SegmentsPerSnippet)
        trimmed == [i \in 1..Len(segs) |-> Trim(segs[i])]
    IN SelectSeq(trimmed, LAMBDA s : s # <<>>)

\* findings without the cap of slice(0,6)
FindingTextsUncapped(top) ==
    Flatten([i \in 1..Len(top) |-> SnippetFindings(top[i].snippet)])

FindingTexts(top) ==
    Slice(Flatten([i \in 1..Len(top) |-> SnippetFindings(top[i].snippet)]), FindingsCap)

\* findings that all cite the best result
FindingsCiteFirst(top) ==
    LET texts == FindingTexts(top)
    IN [i \in 1..Len(texts) |-> [text |-> texts[i], cite |-> top[1].id]]

Findings(top) ==
    LET texts == FindingTexts(top)
    IN [i \in 1..Len(texts) |->
            [text |-> texts[i], cite |-> top[((i - 1) % Len(top)) + 1].id]]

Appendix(ranked) ==
    [i \in 1..Len(ranked) |->
        [id |-> ranked[i].id, url |-> ranked[i].url,
         authority |-> ranked[i].authority, status |-> ranked[i].status]]

RECURSIVE SumRank(_)
SumRank(s) == IF s = <<>> THEN 0 ELSE Head(s).rank + SumRank(Tail(s))

\* a confidence that truncates where Math.round rounds
ConfidenceTruncated(top) ==
    LET den == IF Len(top) = 0 THEN 1 ELSE Len(top)
        floored == SumRank(top) \div den
    IN IF floored > 100 THEN 100 ELSE floored

\* Math.round(Math.min(100, sum / (top.length || 1) * 100)), ranks in hundredths
Confidence(top) ==
    LET den == IF Len(top) = 0 THEN 1 ELSE Len(top)
        rounded == (2 * SumRank(top) + den) \div (2 * den)
    IN IF rounded > 100 THEN 100 ELSE rounded

Answer(results) ==
    LET ranked == Ranked(results)
        top == Top(results)
        executive == Executive(top)
    IN [executive_summary |-> ExecutiveSummary(executive),
        confidence |-> Confidence(top),
        key_findings |-> Findings(top),
        detailed_analysis |->
            [searched |-> Len(ranked), top_sources |-> [i \in 1..Len(top) |-> top[i].id]],
        appendix |-> Appendix(ranked),
        probe |-> "Would you like a deeper dive on any result?"]

(***************************************************************************)
(* State.                                                                  *)
(***************************************************************************)
VARIABLES
    hpc,        \* handler: "idle", "joining" (await Promise.all), "returned", "rejected"
    domain,     \* handler's local domain
    q,          \* handler's local q
    fpc,        \* per channel, safeFetch: "none", "fetching", "reading", "returned"
    timer,      \* per channel, the timeout timer: "none", "pending", "cleared", "fired"
    resp,       \* per channel, the status of the response whose body is being read
    outcome,    \* per channel, what safeFetch returned
    prom,       \* per channel, the promise of fetches: "none", "pending", "fulfilled", "rejected"
    value,      \* per channel, the ChannelResult a fulfilled promise holds
    issued,     \* per channel, how many times fetch was called (line 20)
    response,   \* the Response handler returned
    other       \* the locals of a second invocation of handler in flight

vars == <<hpc, domain, q, fpc, timer, resp, outcome, prom, value, issued, response,
          registry, other>>

NoOutcome == [state |-> "none"]
NoValue == [state |-> "none"]
NoResponse == [status |-> 0]

channels == ChannelsFor(domain)
N == IF hpc = "idle" \/ response.status = 400 \/ MapThrows(domain) THEN 0 ELSE Len(channels)
Launched == {c \in 1..N : fpc[c] # "none"}

\* the locals of the running invocation, and of one that has not started
Locals ==
    [hpc |-> hpc, domain |-> domain, q |-> q, fpc |-> fpc, timer |-> timer,
     resp |-> resp, outcome |-> outcome, prom |-> prom, value |-> value,
     issued |-> issued, response |-> response]
NotStarted ==
    [hpc |-> "idle", domain |-> "", q |-> Undefined,
     fpc |-> [c \in ChanIdx |-> "none"], timer |-> [c \in ChanIdx |-> "none"],
     resp |-> [c \in ChanIdx |-> Null], outcome |-> [c \in ChanIdx |-> NoOutcome],
     prom |-> [c \in ChanIdx |-> "none"], value |-> [c \in ChanIdx |-> NoValue],
     issued |-> [c \in ChanIdx |-> 0], response |-> NoResponse]

Init ==
    /\ registry = CHANNELS
    /\ other = NotStarted
    /\ hpc = "idle"
    /\ domain = ""
    /\ q = Undefined
    /\ fpc = [c \in ChanIdx |-> "none"]
    /\ timer = [c \in ChanIdx |-> "none"]
    /\ resp = [c \in ChanIdx |-> Null]
    /\ outcome = [c \in ChanIdx |-> NoOutcome]
    /\ prom = [c \in ChanIdx |-> "none"]
    /\ value = [c \in ChanIdx |-> NoValue]
    /\ issued = [c \in ChanIdx |-> 0]
    /\ response = NoResponse

(***************************************************************************)
(* handler, lines 77-107: one synchronous run up to await Promise.all.     *)
(* The callback of channels.map runs for every channel up to the await of  *)
(* fetch inside safeFetch; a throw of ch.url(q) rejects that channel's     *)
(* promise before safeFetch is called.                                     *)
(***************************************************************************)
\* a validation that tests q === undefined only
QueryMissingStrict(qv) == qv.kind = "undefined"

QueryMissing(qv) == ~Truthy(qv)

Receive(req) ==
    /\ hpc = "idle"
    /\ domain' = DomainOf(req)
    /\ q' = QOf(req)
    /\ IF QueryMissing(QOf(req))
       THEN /\ hpc' = "returned"
            /\ response' = [status |-> 400, body |-> [error |-> "query required"]]
            /\ UNCHANGED <<fpc, timer, prom, issued>>
       ELSE IF MapThrows(DomainOf(req))
       THEN /\ hpc' = "rejected"
            /\ UNCHANGED <<fpc, timer, prom, issued, response>>
       ELSE LET chs == ChannelsFor(DomainOf(req))
                started(c) == c <= Len(chs) /\ ~UrlThrows(chs[c], QOf(req))
            IN /\ hpc' = "joining"
               /\ fpc' = [c \in ChanIdx |-> IF started(c) THEN "fetching" ELSE "none"]
               /\ timer' = [c \in ChanIdx |-> IF started(c) THEN "pending" ELSE "none"]
               /\ issued' = [c \in ChanIdx |-> IF started(c) THEN issued[c] + 1 ELSE issued[c]]
               /\ prom' = [c \in ChanIdx |->
                              IF c > Len(chs) THEN "none"
                              ELSE IF started(c) THEN "pending" ELSE "rejected"]
               /\ UNCHANGED response
    /\ UNCHANGED <<resp, outcome, value, registry, other>>

(***************************************************************************)
(* Promise.all(fetches): fulfilled once every promise is, rejected as soon *)
(* as one is.  The continuation of the await is a microtask: it runs       *)
(* before the event loop takes the next network or timer event.            *)
(***************************************************************************)
AllFulfilled == \A c \in 1..N : prom[c] = "fulfilled"
AnyRejected == \E c \in 1..N : prom[c] = "rejected"
MicrotaskPending == hpc = "joining" /\ (AllFulfilled \/ AnyRejected)

\* the array Promise.all resolves to: the values, in channel order
Results ==
    LET done == SelectSeq([c \in 1..N |-> c], LAMBDA c : prom[c] = "fulfilled")
    IN [i \in 1..Len(done) |-> value[done[i]]]

(***************************************************************************)
(* safeFetch returns r for channel c and the channel task runs on to its   *)
(* return (lines 95-106), or throws while scoring.                         *)
(***************************************************************************)
Return(c, r) ==
    /\ fpc' = [fpc EXCEPT ![c] = "returned"]
    /\ outcome' = [outcome EXCEPT ![c] = r]
    /\ IF ScoreThrows(r, q)
       THEN /\ prom' = [prom EXCEPT ![c] = "rejected"]
            /\ UNCHANGED value
       ELSE /\ prom' = [prom EXCEPT ![c] = "fulfilled"]
            /\ value' = [value EXCEPT ![c] = ChannelResult(channels[c], q, r)]

\* an outcome that takes resp.ok, true of the 2xx statuses only, for ok
ReceivedOnlyIf2xx(status, body) == [ok |-> status = "200", status |-> status, text |-> body]

\* line 30: any response read to its end is a success, whatever its status
Received(status, body) == [ok |-> TRUE, status |-> status, text |-> body]

\* line 32
Caught(err) == [ok |-> FALSE, error |-> err]

\* line 20 resolves: the response headers arrived; line 28 clears the timer
FetchResponds(c, status) ==
    /\ ~MicrotaskPending
    /\ fpc[c] = "fetching"
    /\ fpc' = [fpc EXCEPT ![c] = "reading"]
    /\ resp' = [resp EXCEPT ![c] = status]
    /\ timer' = [timer EXCEPT ![c] = "cleared"]
    /\ UNCHANGED <<hpc, domain, q, outcome, prom, value, issued, registry, other, response>>

\* line 20 rejects with a transport error; the catch of line 31 returns
FetchFails(c) ==
    /\ ~MicrotaskPending
    /\ fpc[c] = "fetching"
    /\ Return(c, Caught(FetchFailed))
    /\ UNCHANGED <<hpc, domain, q, timer, resp, issued, registry, other, response>>

\* line 29 resolves
BodyArrives(c, body) ==
    /\ ~MicrotaskPending
    /\ fpc[c] = "reading"
    /\ Return(c, Received(resp[c], body))
    /\ UNCHANGED <<hpc, domain, q, timer, resp, issued, registry, other, response>>

\* line 29 rejects: the connection broke while the body was read
BodyFails(c) ==
    /\ ~MicrotaskPending
    /\ fpc[c] = "reading"
    /\ Return(c, Caught(Terminated))
    /\ UNCHANGED <<hpc, domain, q, timer, resp, issued, registry, other, response>>

\* the callback of line 19: controller.abort() rejects a fetch still in
\* flight with AbortError, and does nothing to one that is over
TimerFires(c) ==
    /\ ~MicrotaskPending
    /\ timer[c] = "pending"
    /\ timer' = [timer EXCEPT ![c] = "fired"]
    /\ IF fpc[c] = "fetching"
       THEN Return(c, Caught(AbortError))
       ELSE UNCHANGED <<fpc, outcome, prom, value>>
    /\ UNCHANGED <<hpc, domain, q, resp, issued, registry, other, response>>

\* a join that races: Promise.any in the place of Promise.all
JoinOnFirst == \E c \in 1..N : prom[c] = "fulfilled"

\* lines 109-129: the join is fulfilled, rank, synthesise and return
JoinReady == AllFulfilled

\* a handler that orders the shared channel list itself, in place, where
\* line 110 orders a copy of the results
HandlerReturnsReorderingChannels ==
    /\ hpc = "joining"
    /\ ~AnyRejected
    /\ JoinReady
    /\ hpc' = "returned"
    /\ response' = [status |-> 200,
                    body |-> [query |-> q, domain |-> domain, answer |-> Answer(Results)]]
    /\ registry' =
          LET key == IF domain \in DOMAIN registry THEN domain ELSE "general"
              n == Len(registry[key])
          IN [registry EXCEPT ![key] = [i \in 1..n |-> registry[key][n + 1 - i]]]
    /\ UNCHANGED <<domain, q, fpc, timer, resp, outcome, prom, value, issued, other>>

HandlerReturns ==
    /\ hpc = "joining"
    /\ ~AnyRejected
    /\ JoinReady
    /\ hpc' = "returned"
    /\ response' = [status |-> 200,
                    body |-> [query |-> q, domain |-> domain, answer |-> Answer(Results)]]
    /\ UNCHANGED <<domain, q, fpc, timer, resp, outcome, prom, value, issued, registry, other>>

\* a handler that cancels the fetches still in flight when the join fails
HandlerRejectsAborting ==
    /\ hpc = "joining"
    /\ AnyRejected
    /\ hpc' = "rejected"
    /\ fpc' = [c \in ChanIdx |->
                  IF fpc[c] \in {"fetching", "reading"} THEN "returned" ELSE fpc[c]]
    /\ timer' = [c \in ChanIdx |-> IF timer[c] = "pending" THEN "cleared" ELSE timer[c]]
    /\ outcome' = [c \in ChanIdx |->
                      IF fpc[c] \in {"fetching", "reading"}
                      THEN Caught(AbortError) ELSE outcome[c]]
    /\ UNCHANGED <<domain, q, resp, prom, value, issued, registry, other, response>>

\* line 109 throws: the join is rejected, handler's promise rejects
HandlerRejects ==
    /\ hpc = "joining"
    /\ AnyRejected
    /\ hpc' = "rejected"
    /\ UNCHANGED <<domain, q, fpc, timer, resp, outcome, prom, value, issued,
                   registry, other, response>>

Next ==
    \/ \E req \in Requests : Receive(req)
    \/ \E c \in ChanIdx, s \in Statuses : FetchResponds(c, s)
    \/ \E c \in ChanIdx : FetchFails(c)
    \/ \E c \in ChanIdx, b \in Bodies : BodyArrives(c, b)
    \/ \E c \in ChanIdx : BodyFails(c)
    \/ \E c \in ChanIdx : TimerFires(c)
    \/ HandlerReturns
    \/ HandlerRejects

Spec == Init /\ [][Next]_vars

(***************************************************************************)
(* The event loop runs a due timer callback and a ready continuation; the  *)
(* network owes no answer.  The fairness of HandlerReturns is              *)
(* WF_vars(HandlerReturns) with ENABLED written out as the action's guard. *)
(***************************************************************************)
FairHandlerReturns ==
    \/ []<>(~(hpc = "joining" /\ ~AnyRejected /\ JoinReady))
    \/ []<><<HandlerReturns>>_vars

FairSpec ==
    /\ Spec
    /\ \A c \in ChanIdx : WF_vars(TimerFires(c))
    /\ WF_vars(HandlerRejects)
    /\ FairHandlerReturns

(***************************************************************************)
(* Properties.                                                             *)
(***************************************************************************)
Returned200 == hpc = "returned" /\ response.status = 200
Payload == response.body.answer
OkChannels == {c \in 1..N : fpc[c] = "returned" /\ outcome[c].ok}
FailedChannels == {c \in 1..N : fpc[c] = "returned" /\ ~outcome[c].ok}
AppendixIds == {Payload.appendix[i].id : i \in 1..Len(Payload.appendix)}
Citations == {Payload.key_findings[i].cite : i \in 1..Len(Payload.key_findings)}
\* the fetches that ended by the timeout abort or by a transport error
Broken(c) == fpc[c] = "returned" /\ "error" \in DOMAIN outcome[c]
\* the fetches whose response was read to its end
ReadToEnd(c) == fpc[c] = "returned" /\ "text" \in DOMAIN outcome[c]

\* C1: ranking, synthesis and the return of the response happen only once
\* every fetch launched for the request has settled (succeeded, failed or
\* timed out): a returned answer never coexists with a fetch still in flight.
C1_JoinBarrier ==
    Returned200 => \A c \in ChanIdx : fpc[c] \notin {"fetching", "reading"}

\* an answer was returned after one fetch timed out, one failed and one succeeded
C1_Witness ==
    /\ Returned200
    /\ \E a, b, c \in 1..N :
          /\ fpc[a] = "returned" /\ ~outcome[a].ok /\ outcome[a].error = AbortError
          /\ fpc[b] = "returned" /\ ~outcome[b].ok /\ outcome[b].error = FetchFailed
          /\ fpc[c] = "returned" /\ outcome[c].ok

\* C2: a channel that produced its ChannelResult keeps exactly the result of
\* its own URL, outcome and body, and the join is never lost to another
\* channel's exception: handler does not reject while holding that result.
C2_Isolation ==
    \A c \in 1..N :
        prom[c] = "fulfilled" =>
            /\ value[c] = ChannelResult(channels[c], q, outcome[c])
            /\ hpc # "rejected"

\* C3: once safeFetch has returned, however it ended, its timeout timer is
\* no longer pending.
C3_TimerCleared ==
    \A c \in ChanIdx : fpc[c] = "returned" => timer[c] # "pending"

\* C4: every safeFetch call that was started eventually returns, given only
\* that its timer eventually fires.
C4_EveryFetchReturns ==
    \A c \in ChanIdx : (fpc[c] = "fetching") ~> (fpc[c] = "returned")

\* C5: a channel whose fetch was aborted by the timeout or broke with a
\* transport error has a ChannelResult with ok false, an error string and a
\* null status; it is in no appendix entry and is no finding's citation.
C5_FailedChannelDropped ==
    \A c \in 1..N :
        Broken(c) =>
            /\ ~outcome[c].ok
            /\ prom[c] = "fulfilled"
            /\ ~value[c].ok
            /\ value[c].error \in {AbortError, FetchFailed, Terminated}
            /\ value[c].status = Null
            /\ Returned200 =>
                  /\ channels[c].id \notin AppendixIds
                  /\ channels[c].id \notin Citations

\* an answer with cited findings was returned although one channel timed
\* out and another broke
C5_Witness ==
    /\ Returned200
    /\ Len(Payload.key_findings) > 0
    /\ \E a, b \in 1..N :
          /\ Broken(a) /\ outcome[a].error = AbortError
          /\ Broken(b) /\ outcome[b].error = FetchFailed

\* C6: a response read to its end gives ok:true with its status and text
\* whatever the status code; the channel's result is successful and the
\* returned appendix carries the channel with that status.
C6_AnyStatusSucceeds ==
    \A c \in 1..N :
        ReadToEnd(c) =>
            /\ outcome[c].ok
            /\ outcome[c].status = resp[c]
            /\ outcome[c].text \in Bodies
            /\ prom[c] = "fulfilled" => (value[c].ok /\ value[c].status = resp[c])
            /\ Returned200 =>
                  \E i \in 1..Len(Payload.appendix) :
                      /\ Payload.appendix[i].id = channels[c].id
                      /\ Payload.appendix[i].status = resp[c]

\* an answer was returned whose appendix lists a channel that answered 503
C6_Witness ==
    /\ Returned200
    /\ \E c \in 1..N : ReadToEnd(c) /\ resp[c] = "503"
    /\ \E i \in 1..Len(Payload.appendix) : Payload.appendix[i].status = "503"

\* C7: a request with a non-empty query is never rejected, and what it
\* returns has status 200.
C7_NeverRaises ==
    (hpc # "idle" /\ Truthy(q)) =>
        /\ hpc # "rejected"
        /\ hpc = "returned" => response.status = 200

\* C8: a request without a query is answered 400 with the error body, and
\* no fetch is launched and no timer started for it.
C8_MissingQuery ==
    (hpc # "idle" /\ ~Truthy(q)) =>
        /\ hpc = "returned"
        /\ response = [status |-> 400, body |-> [error |-> "query required"]]
        /\ \A c \in ChanIdx :
              fpc[c] = "none" /\ timer[c] = "none" /\ prom[c] = "none"

\* a request with an empty string for query was answered
C8_Witness ==
    /\ hpc = "returned"
    /\ q = Str(<<>>)
    /\ response.status = 400

\* C9: when every channel of the request has an ok:false result, handler
\* does not reject, and the response has status 200, the fallback summary,
\* confidence 0, an empty appendix and no findings.
AllFailed == N > 0 /\ \A c \in 1..N : prom[c] = "fulfilled" /\ ~value[c].ok

C9_TotalFailure ==
    AllFailed =>
        /\ hpc \in {"joining", "returned"}
        /\ hpc = "returned" =>
              /\ response.status = 200
              /\ Payload.executive_summary = NoEvidence
              /\ Payload.confidence = 0
              /\ Payload.appendix = <<>>
              /\ Payload.key_findings = <<>>

\* every channel failed, by timeout, transport error and broken body, and
\* the answer was returned
C9_Witness ==
    /\ AllFailed
    /\ hpc = "returned"
    /\ \E a, b, c \in 1..N :
          /\ outcome[a].error = AbortError
          /\ outcome[b].error = FetchFailed
          /\ outcome[c].error = Terminated

\* C10: a returned payload has at most 6 findings, and its appendix has one
\* entry for each channel whose outcome is ok:true and none for the others.
C10_Sizes ==
    Returned200 =>
        /\ Len(Payload.key_findings) <= FindingsCap
        /\ Len(Payload.appendix) = Cardinality(OkChannels)
        /\ AppendixIds = {channels[c].id : c \in OkChannels}

\* the cap cut the findings of four successful channels down to six
C10_WitnessCap ==
    /\ Returned200
    /\ Cardinality(OkChannels) = MaxChannels
    /\ Len(Payload.key_findings) = FindingsCap
    /\ Len(FindingTextsUncapped(Top(Results))) > FindingsCap

\* a payload whose appendix leaves out the failed channels
C10_Witness ==
    /\ Returned200
    /\ FailedChannels # {}
    /\ OkChannels # {}
    /\ Len(Payload.appendix) = Cardinality(OkChannels)
    /\ Len(Payload.key_findings) > 0

\* the sum of matchScore * authority over the successful channels 1..k
RECURSIVE OkRankSum(_)
OkRankSum(k) ==
    IF k = 0 THEN 0
    ELSE OkRankSum(k - 1)
         + (IF k \in OkChannels THEN value[k].matchScore * value[k].authority ELSE 0)

\* C11: the confidence of a returned payload is an integer of 0..100, the
\* average rank (matchScore * authority) of the top set times 100, rounded
\* to the nearest integer and capped at 100; it is 0 when the top set is
\* empty.  No list has more than 5 channels, so the top set is every
\* successful channel.
C11_Confidence ==
    Returned200 =>
        LET n == Cardinality(OkChannels)
            sum == OkRankSum(N)
            conf == Payload.confidence
        IN /\ conf \in 0..100
           /\ n = 0 => conf = 0
           /\ n > 0 =>
                 \* conf - 1/2 <= sum / n < conf + 1/2, or the cap applies
                 \/ (2 * n * conf - n <= 2 * sum /\ 2 * sum < 2 * n * conf + n)
                 \/ (conf = 100 /\ 2 * sum >= 200 * n - n)

\* a payload whose average rank is no integer: it was rounded up
C11_Witness ==
    /\ Returned200
    /\ Cardinality(OkChannels) > 1
    /\ Payload.confidence * Cardinality(OkChannels) > OkRankSum(N)
    /\ \E c \in OkChannels : value[c].matchScore = 0
    /\ \E c \in OkChannels : value[c].matchScore = 1

\* the channel of the request that has this id, and the rank of its result
ChanOfId(id) == CHOOSE c \in 1..N : channels[c].id = id
RankOfId(id) == value[ChanOfId(id)].matchScore * value[ChanOfId(id)].authority
TopSources == Payload.detailed_analysis.top_sources
Min(a, b) == IF a < b THEN a ELSE b

\* C12: along the appendix of a returned payload the rank never increases,
\* and the top set is the first min(5, n) entries of the appendix, in the
\* same order.
C12_RankOrder ==
    Returned200 =>
        LET app == Payload.appendix
        IN /\ \A i \in 1..(Len(app) - 1) : RankOfId(app[i].id) >= RankOfId(app[i + 1].id)
           /\ Len(TopSources) = Min(TopSize, Len(app))
           /\ \A i \in 1..Len(TopSources) : TopSources[i] = app[i].id

\* an appendix of three different ranks, led by the last channel of the list
C12_Witness ==
    /\ Returned200
    /\ Len(Payload.appendix) >= 3
    /\ ChanOfId(Payload.appendix[1].id) = N
    /\ \A i \in 1..(Len(Payload.appendix) - 1) :
          RankOfId(Payload.appendix[i].id) > RankOfId(Payload.appendix[i + 1].id)

\* the results of the channels, recomputed from what each safeFetch returned
ResultsOfOutcomes == [c \in 1..N |-> ChannelResult(channels[c], q, outcome[c])]

\* C13: the payload is a function of the per-channel outcomes alone, whatever
\* the order the fetches completed in, and channels of equal rank stay in
\* registry order; for the general list with four matching successes the
\* order is wikipedia, duckduckgo, bing, brave, top set and appendix of 4.
C13_Deterministic ==
    Returned200 =>
        LET app == Payload.appendix
        IN /\ Payload = Answer(ResultsOfOutcomes)
           /\ \A i \in 1..(Len(app) - 1) :
                 RankOfId(app[i].id) = RankOfId(app[i + 1].id)
                     => ChanOfId(app[i].id) < ChanOfId(app[i + 1].id)
           /\ ( /\ channels = CHANNELS.general
                /\ \A c \in 1..N : c \in OkChannels /\ value[c].matchScore = 1 )
              => /\ [i \in 1..Len(app) |-> app[i].id]
                        = <<"wikipedia", "duckduckgo", "bing", "brave">>
                 /\ TopSources = <<"wikipedia", "duckduckgo", "bing", "brave">>

\* the general list answered with four matching successes
C13_Witness ==
    /\ Returned200
    /\ domain = "general"
    /\ \A c \in 1..N : c \in OkChannels /\ value[c].matchScore = 1
    /\ Len(Payload.appendix) = MaxChannels

\* C18: finding i of the capped list cites top[i mod |top|], by position;
\* every citation is the id of a successful channel of the top set and of
\* the appendix, never null.
C18_Citations ==
    Returned200 =>
        LET kf == Payload.key_findings
            app == Payload.appendix
        IN \A i \in 1..Len(kf) :
              /\ Len(TopSources) > 0
              /\ kf[i].cite = TopSources[((i - 1) % Len(TopSources)) + 1]
              /\ kf[i].cite # Null
              /\ kf[i].cite \in {channels[c].id : c \in OkChannels}
              /\ kf[i].cite \in AppendixIds

\* more findings than top results: the citations wrap around, and the
\* second finding, cut from the first snippet, cites the second result
C18_Witness ==
    /\ Returned200
    /\ Len(TopSources) >= 2
    /\ Len(Payload.key_findings) > Len(TopSources)
    /\ Payload.key_findings[2].cite = TopSources[2]
    /\ Payload.key_findings[Len(TopSources) + 1].cite = TopSources[1]

\* what a step did to channel c
ChannelChanged(c) == <<fpc[c], timer[c], outcome[c]>>' # <<fpc[c], timer[c], outcome[c]>>

\* C19: a fetch is aborted only by the firing of its own timer, and its
\* timer is cleared only by its own response; a step of one channel leaves
\* every other channel's fetch and timer alone, and so does the handler.
C19_NoCrossCancellation ==
    [][ hpc # "idle" =>
          /\ \A c \in ChanIdx :
                (outcome'[c] # outcome[c] /\ outcome'[c] = Caught(AbortError))
                    => (fpc[c] = "fetching" /\ timer[c] = "pending" /\ timer'[c] = "fired")
          /\ \A c \in ChanIdx :
                timer'[c] # timer[c] =>
                    \/ timer[c] = "pending" /\ timer'[c] = "fired"
                    \/ /\ timer[c] = "pending" /\ timer'[c] = "cleared"
                       /\ fpc[c] = "fetching" /\ fpc'[c] = "reading"
          /\ \A c, d \in ChanIdx : (ChannelChanged(c) /\ ChannelChanged(d)) => c = d
          /\ hpc' # hpc => \A c \in ChanIdx : ~ChannelChanged(c)
      ]_vars

\* one fetch has ended well and another was aborted by its own timer, yet a
\* third is still in flight with its timer pending
C19_Witness ==
    /\ hpc = "joining"
    /\ q = Query
    /\ \E a, b, c \in 1..N :
          /\ fpc[a] = "returned" /\ outcome[a] = Caught(AbortError) /\ timer[a] = "fired"
          /\ fpc[b] = "returned" /\ outcome[b].ok
          /\ fpc[c] = "fetching" /\ timer[c] = "pending"

\* C15: for a request with a non-empty query, fetch is called exactly once
\* for every channel of the resolved list: none is skipped, none repeated.
C15_EachChannelOnce ==
    (hpc # "idle" /\ Truthy(q) /\ ~MapThrows(domain)) =>
        \A c \in 1..Len(channels) : issued[c] = 1

\* C14: a domain name outside the six registered ones is served by the
\* general list: the same channels, in the same order, are probed.
C14_UnknownFallsBack ==
    (hpc # "idle" /\ q = Query /\ domain \notin DOMAIN CHANNELS) =>
        /\ hpc # "rejected"
        /\ channels = CHANNELS.general
        /\ \A c \in 1..Len(CHANNELS.general) :
              issued[c] = 1 /\ prom[c] # "none"

(***************************************************************************)
(* The synthesis of text.  The same handler, on requests for the general   *)
(* domain, with response bodies that exercise lines 113 and 114: a snippet *)
(* longer than the 300 characters of the summary, an empty body, and a     *)
(* body whose first segment is empty.                                      *)
(***************************************************************************)
LongBody == [i \in 1..SummaryCap |-> "x"] \o <<".", "y">>
TextBodies == {LongBody, <<>>, <<".", " ", "b", ".", "c">>}
TextRequests == {req \in Requests : DomainOf(req) = "general"}

TextNext ==
    \/ \E req \in TextRequests : Receive(req)
    \/ \E c \in ChanIdx, s \in Statuses : FetchResponds(c, s)
    \/ \E c \in ChanIdx : FetchFails(c)
    \/ \E c \in ChanIdx, b \in TextBodies : BodyArrives(c, b)
    \/ \E c \in ChanIdx : BodyFails(c)
    \/ \E c \in ChanIdx : TimerFires(c)
    \/ HandlerReturns
    \/ HandlerRejects

TextSpec == Init /\ [][TextNext]_vars

\* the snippet of the i-th top source, and its first 300 characters
TopSnippet(i) == value[ChanOfId(TopSources[i])].snippet
TopSnippetHead(i) == SubSeq(TopSnippet(i), 1, Min(Len(TopSnippet(i)), SummaryCap))

\* the heads of the top sources 1..k, " ... " between them
RECURSIVE JoinedHeads(_)
JoinedHeads(k) ==
    IF k = 0 THEN <<>>
    ELSE IF k = 1 THEN TopSnippetHead(1)
    ELSE JoinedHeads(k - 1) \o SummarySeparator \o TopSnippetHead(k)

\* C16, as stated: the summary is the join of the 300-character heads of
\* the top snippets, in top-set order, whenever the top set is non-empty,
\* also when every snippet is empty; it is the fallback literal only when
\* the top set is empty.
C16_JoinUnlessTopEmpty ==
    Returned200 =>
        /\ Len(TopSources) > 0 =>
              Payload.executive_summary = JoinedHeads(Len(TopSources))
        /\ Len(TopSources) = 0 => Payload.executive_summary = NoEvidence

\* C16, amended: the summary is the join of the 300-character heads of the
\* top snippets, in top-set order, joined with " ... ", whenever that join
\* is a non-empty string; the fallback literal is used when the join is the
\* empty string, which is when the top set is empty or is a single result
\* with an empty snippet.
C16_JoinUnlessEmptyString ==
    Returned200 =>
        LET joined == JoinedHeads(Len(TopSources))
        IN /\ joined # <<>> => Payload.executive_summary = joined
           /\ joined = <<>> => Payload.executive_summary = NoEvidence
           /\ joined = <<>> <=>
                 \/ Len(TopSources) = 0
                 \/ Len(TopSources) = 1 /\ TopSnippet(1) = <<>>

\* a summary of three snippets, one of them cut at 300 characters and one
\* of them empty
C16_Witness ==
    /\ Returned200
    /\ Len(TopSources) = 3
    /\ \E i \in 1..3 : Len(TopSnippet(i)) > SummaryCap
    /\ \E i \in 1..3 : TopSnippet(i) = <<>>
    /\ Payload.executive_summary = JoinedHeads(3)
    /\ Len(Payload.executive_summary) < Len(TopSnippet(1)) + Len(TopSnippet(2)) + Len(TopSnippet(3)) + 2 * Len(SummarySeparator)

\* the fallback literal for a top set of one result with an empty snippet
C16_WitnessFallback ==
    /\ Returned200
    /\ Len(TopSources) = 1
    /\ TopSnippet(1) = <<>>
    /\ Payload.executive_summary = NoEvidence

\* the k-th segment of the i-th top snippet, trimmed; "" where there is none
TopSegment(i, k) ==
    LET segs == Split(TopSnippet(i))
    IN IF k <= Len(segs) THEN Trim(segs[k]) ELSE <<>>
\* the non-empty trimmed segments of the i-th top snippet
TopNonEmptySegments(i) ==
    LET segs == Split(TopSnippet(i))
    IN SelectSeq([k \in 1..Len(segs) |-> Trim(segs[k])], LAMBDA t : t # <<>>)
FindingTextsOfPayload ==
    [i \in 1..Len(Payload.key_findings) |-> Payload.key_findings[i].text]

\* what the top snippets 1..n contribute when each gives its first two
\* non-empty segments
RECURSIVE FirstTwoNonEmpty(_)
FirstTwoNonEmpty(n) ==
    IF n = 0 THEN <<>>
    ELSE FirstTwoNonEmpty(n - 1)
         \o SubSeq(TopNonEmptySegments(n), 1, Min(SegmentsPerSnippet, Len(TopNonEmptySegments(n))))

\* what the top snippets 1..n contribute when each gives those of its first
\* two segments that are non-empty
RECURSIVE NonEmptyOfFirstTwo(_)
NonEmptyOfFirstTwo(n) ==
    IF n = 0 THEN <<>>
    ELSE NonEmptyOfFirstTwo(n - 1)
         \o (IF TopSegment(n, 1) # <<>> THEN <<TopSegment(n, 1)>> ELSE <<>>)
         \o (IF TopSegment(n, 2) # <<>> THEN <<TopSegment(n, 2)>> ELSE <<>>)

\* C17, as stated: the findings are, for each top snippet in top-set order,
\* its first 2 segments that are non-empty after trimming (empty segments
\* do not count towards the 2), the first 6 of them kept.
C17_FirstTwoNonEmptySegments ==
    Returned200 =>
        LET all == FirstTwoNonEmpty(Len(TopSources))
        IN FindingTextsOfPayload = SubSeq(all, 1, Min(FindingsCap, Len(all)))

\* C17, amended: the findings are, for each top snippet in top-set order,
\* those of its first 2 segments (split on '.') that are non-empty after
\* trimming, so an empty segment among the first 2 counts towards the 2 and
\* a snippet may contribute fewer than two findings although it has two
\* non-empty segments; the first 6 of the flattened list are kept.
C17_NonEmptyOfFirstTwoSegments ==
    Returned200 =>
        LET all == NonEmptyOfFirstTwo(Len(TopSources))
        IN FindingTextsOfPayload = SubSeq(all, 1, Min(FindingsCap, Len(all)))

\* four snippets: one with an empty first segment gave one finding of its
\* two non-empty segments, and the cap cut the seven findings down to six
C17_Witness ==
    /\ Returned200
    /\ Len(TopSources) = MaxChannels
    /\ \E i \in 1..Len(TopSources) :
          /\ TopSegment(i, 1) = <<>>
          /\ Len(TopNonEmptySegments(i)) = 2
    /\ Len(NonEmptyOfFirstTwo(Len(TopSources))) > FindingsCap
    /\ Len(Payload.key_findings) = FindingsCap

(***************************************************************************)
(* Two invocations of handler in flight on one event loop.  The variables  *)
(* hpc .. response are the locals of the invocation whose event the loop   *)
(* is handling, other holds the locals of the second one, and the loop     *)
(* turns from one to the other between events: never while a continuation  *)
(* of the first is ready, since microtasks run before the next event.      *)
(* The network answers each fetch with status 200 and a body, or fails it, *)
(* before the timeout.                                                     *)
(***************************************************************************)
PairBodies == {<<"<p>", "A", " ", "\n", "B", ".", " ", "c", "</p>">>}
PairRequests ==
    {req \in Requests :
        /\ req.method = "POST"
        /\ \/ DomainOf(req) = "research" /\ QOf(req) \in {Query, Num(<<"5">>)}
           \/ DomainOf(req) = "finance" /\ QOf(req) = Query}

Switch ==
    /\ ~MicrotaskPending
    /\ Locals # other
    /\ other' = Locals
    /\ hpc' = other.hpc
    /\ domain' = other.domain
    /\ q' = other.q
    /\ fpc' = other.fpc
    /\ timer' = other.timer
    /\ resp' = other.resp
    /\ outcome' = other.outcome
    /\ prom' = other.prom
    /\ value' = other.value
    /\ issued' = other.issued
    /\ response' = other.response
    /\ UNCHANGED registry

PairNext ==
    \/ \E req \in PairRequests : Receive(req)
    \/ \E c \in ChanIdx : FetchResponds(c, "200")
    \/ \E c \in ChanIdx : FetchFails(c)
    \/ \E c \in ChanIdx, b \in PairBodies : BodyArrives(c, b)
    \/ HandlerReturns
    \/ HandlerRejects
    \/ Switch

PairSpec == Init /\ [][PairNext]_vars

\* the answer an invocation with the locals l produces alone, from the
\* registry as the module defines it and the outcomes of l's own fetches
AnswerAlone(l) ==
    LET chs == IF l.domain \in DOMAIN CHANNELS THEN CHANNELS[l.domain] ELSE CHANNELS.general
    IN Answer([c \in 1..Len(chs) |-> ChannelResult(chs[c], l.q, l.outcome[c])])

ReturnedAnswer(l) == l.hpc = "returned" /\ l.response.status = 200
InFlight(l) ==
    /\ l.hpc = "joining"
    /\ \E c \in ChanIdx : l.fpc[c] = "returned"
    /\ \E c \in ChanIdx : l.fpc[c] \in {"fetching", "reading"}

\* C20: when two invocations of handler are interleaved on the event loop,
\* the channel registry is never changed, and the response of each equals
\* the response that invocation produces alone from its own query, domain
\* and per-channel fetch outcomes.
C20_NoInterference ==
    /\ registry = CHANNELS
    /\ \A l \in {Locals, other} :
          ReturnedAnswer(l) =>
              /\ l.response.body.answer = AnswerAlone(l)
              /\ l.response.body.query = l.q
              /\ l.response.body.domain = l.domain

\* one invocation returned its answer while the other, for another domain,
\* was in flight between two of its fetches
C20_Witness ==
    /\ ReturnedAnswer(Locals)
    /\ InFlight(other)
    /\ domain # other.domain
    /\ Len(Payload.appendix) > 1
====
